---- MODULE Spec2Model ----
(***************************************************************************)
(* CartStoreService (cart-store-api.api.service.js): the gateway that      *)
(* turns cart operations into requests on the injected HTTP client.        *)
(*                                                                         *)
(* JavaScript objects that the code reads through references (the item's   *)
(* priceDefinition and its taxRules) live in `heap`, so that a write       *)
(* through an aliased reference is visible.  Objects a call allocates are  *)
(* added to a local heap and are dropped when the call returns; the        *)
(* request records their contents as they are when the HTTP client is      *)
(* called.                                                                 *)
(***************************************************************************)
EXTENDS Integers, Sequences, FiniteSets, TLC

(* ------------------------------ bounds -------------------------------- *)
MaxPrice == 2
MaxQuantity == 1
MaxSalesChannel == 1
MaxToken == 1
MaxIds == 2

(* ------------------- lineItemConstants (lines 5-17) ------------------- *)
PRODUCT == "product"
CREDIT == "credit"
CUSTOM == "custom"
PROMOTION == "promotion"
ABSOLUTE == "absolute"
QUANTITY == "quantity"

\* the JavaScript value undefined, where a string is expected
undefined == "undefined"
\* the JavaScript value null, where an object is expected
null == [isNull |-> TRUE]
\* an absent object reference (item.priceDefinition undefined or null)
NoRef == "no-reference"
\* the object {}
EmptyObject == [k \in {} |-> 0]
\* an absent (falsy) identifier
NoId == [from |-> "none", n |-> 0]

getLineItemTypes == [PRODUCT |-> PRODUCT, CREDIT |-> CREDIT,
                     CUSTOM |-> CUSTOM, PROMOTION |-> PROMOTION]

getLineItemPriceTypes == [ABSOLUTE |-> ABSOLUTE, QUANTITY |-> QUANTITY]

LineItemTypes == {PRODUCT, CREDIT, CUSTOM, PROMOTION}

\* mutant: a type the map lacks is priced by quantity
mapLineItemTypeToPriceTypeDefaultQuantity(itemType) ==
    IF itemType = getLineItemTypes.CREDIT
    THEN getLineItemPriceTypes.ABSOLUTE
    ELSE getLineItemPriceTypes.QUANTITY

\* mapTypes[itemType]: a key the object lacks reads as undefined
mapLineItemTypeToPriceType(itemType) ==
    LET lineItemTypes == getLineItemTypes
        priceTypes == getLineItemPriceTypes
    IN  CASE itemType = lineItemTypes.PRODUCT -> priceTypes.QUANTITY
          [] itemType = lineItemTypes.CUSTOM -> priceTypes.QUANTITY
          [] itemType = lineItemTypes.CREDIT -> priceTypes.ABSOLUTE
          [] OTHER -> undefined

(* ------------------------------ state --------------------------------- *)
VARIABLES
    item,           \* the caller's line item
    heap,           \* the caller's objects reached through references
    basicHeaders,   \* the base headers of ApiService
    featureActive,  \* what isActive('FEATURE_NEXT_10058') reports now
    nextId,         \* how many identifiers utils.createId has produced
    call,           \* the most recent operation called, with its arguments
    issued,         \* the HTTP client calls made by that operation, in order
    result          \* "none", "pending" (a promise was returned) or "threw"

vars == <<item, heap, basicHeaders, featureActive, nextId, call, issued, result>>

PdAddr == "item.priceDefinition"
TaxAddr == "item.priceDefinition.taxRules"
DummyAddr == "dummyPrice"
DummyTaxAddr == "dummyPrice.taxRules"

SalesChannelIds == 1..MaxSalesChannel
Tokens == 1..MaxToken
Prices == 1..MaxPrice
Quantities == 1..MaxQuantity

\* item.price: absent, or an object holding unitPrice
NoPrice == [defined |-> FALSE]
ItemPrices == {NoPrice} \cup {[defined |-> TRUE, unitPrice |-> p] : p \in Prices}

Identifiers == {NoId, [from |-> "identifier", n |-> 1]}
Ids == {NoId, [from |-> "id", n |-> 2]}

Items ==
    [isNew : BOOLEAN, type : LineItemTypes, identifier : Identifiers, id : Ids,
     label : {"label"}, description : {"description"}, quantity : Quantities,
     price : ItemPrices, priceDefinition : {NoRef, PdAddr}]

TaxRules == [taxRate |-> 19, percentage |-> 100]

\* the stored price definition: its price, and a quantity and a type
\* left from an earlier calculation
StoredPriceDefinitions(it) ==
    IF it.priceDefinition = NoRef
    THEN {[price |-> 1, taxRules |-> TaxAddr, quantity |-> it.quantity + 1,
           type |-> ABSOLUTE]}
    ELSE [price : {1}, taxRules : {TaxAddr}, quantity : {it.quantity + 1},
          type : {ABSOLUTE, QUANTITY}]

\* additionalHeaders: {} or an object that sets sw-context-token itself,
\* to a value no contextToken argument has
AdditionalHeaders == {EmptyObject, [swContextToken |-> MaxToken + 1]}

\* the base headers, without or with a sw-context-token of their own
BasicHeaders == {[Authorization |-> "Bearer"],
                 [Authorization |-> "Bearer", swContextToken |-> MaxToken + 2]}

NoCall == [op |-> "none"]

Init ==
    /\ item \in Items
    /\ \E pd \in StoredPriceDefinitions(item) :
          heap = (PdAddr :> pd) @@ (TaxAddr :> TaxRules)
    /\ basicHeaders \in BasicHeaders
    /\ featureActive \in BOOLEAN
    /\ nextId = 0
    /\ call = NoCall
    /\ issued = <<>>
    /\ result = "none"

(* --------------------------- collaborators ---------------------------- *)
\* ApiService.getApiVersion
getApiVersion == 3

\* ApiService.getBasicHeaders: the base headers, overridden by the caller's
getBasicHeaders(additionalHeaders) == additionalHeaders @@ basicHeaders

\* deepCopyObject of a price definition: a structurally independent copy,
\* the nested taxRules copied too
deepCopyObject(h, ref) ==
    [heap |-> h @@ (DummyAddr :> [h[ref] EXCEPT !.taxRules = DummyTaxAddr])
                @@ (DummyTaxAddr :> h[h[ref].taxRules]),
     ref |-> DummyAddr]

\* utils.createId: an identifier no earlier call returned
createId == [from |-> "createId", n |-> nextId]

\* Shopware.Service('feature').isActive('FEATURE_NEXT_10058')
isActive == featureActive

\* the feature-flag service changes its answer
ToggleFeature ==
    /\ featureActive' = ~featureActive
    /\ UNCHANGED <<item, heap, basicHeaders, nextId, call, issued, result>>

(* ------------------------------ requests ------------------------------ *)
\* a call without a request body
NoData == [none |-> TRUE]

\* `_proxy/store-api/${salesChannelId}/v${this.getApiVersion()}/checkout/cart`
cartRoute(salesChannelId) ==
    <<"_proxy/store-api/", salesChannelId, "/v", getApiVersion, "/checkout/cart">>

\* `_proxy/store-api/${salesChannelId}/v${this.getApiVersion()}/checkout/cart/line-item`
lineItemRoute(salesChannelId) ==
    <<"_proxy/store-api/", salesChannelId, "/v", getApiVersion,
      "/checkout/cart/line-item">>

getRouteForItem(id, salesChannelId) == lineItemRoute(salesChannelId)

\* mutant: the caller's headers are spread after the token
withContextTokenFirst(headers, contextToken) ==
    headers @@ [swContextToken |-> contextToken]

\* { ...headers, 'sw-context-token': contextToken }: the later key wins
withContextToken(headers, contextToken) ==
    [swContextToken |-> contextToken] @@ headers

\* one call of this.httpClient
Request(method, route, data, additionalParams, headers) ==
    [method |-> method, route |-> route, data |-> data,
     additionalParams |-> additionalParams, headers |-> headers]

Call(op, salesChannelId, contextToken, additionalParams, additionalHeaders) ==
    [op |-> op, salesChannelId |-> salesChannelId, contextToken |-> contextToken,
     additionalParams |-> additionalParams,
     additionalHeaders |-> additionalHeaders]

\* an operation that returns the promise of its one HTTP client call
Returns(c, request) ==
    /\ call' = c
    /\ issued' = <<request>>
    /\ result' = "pending"

Params == {EmptyObject}
LineItemKeys == <<"key-1", "key-2">>
ShippingCosts == [unitPrice |-> 5, totalPrice |-> 5]
PromotionCode == "SAVE10"

(* ----------------------------- operations ----------------------------- *)
createCart(salesChannelId, additionalParams, additionalHeaders) ==
    LET route == cartRoute(salesChannelId)
        headers == getBasicHeaders(additionalHeaders)
    IN  /\ Returns(Call("createCart", salesChannelId, 0, additionalParams,
                        additionalHeaders),
                   Request("GET", route, NoData, additionalParams, headers))
        /\ UNCHANGED <<item, heap, basicHeaders, featureActive, nextId>>

getCart(salesChannelId, contextToken, additionalParams, additionalHeaders) ==
    LET route == cartRoute(salesChannelId)
        headers == withContextToken(getBasicHeaders(additionalHeaders), contextToken)
    IN  /\ Returns(Call("getCart", salesChannelId, contextToken, additionalParams,
                        additionalHeaders),
                   Request("GET", route, NoData, additionalParams, headers))
        /\ UNCHANGED <<item, heap, basicHeaders, featureActive, nextId>>

cancelCart(salesChannelId, contextToken, additionalParams, additionalHeaders) ==
    LET route == cartRoute(salesChannelId)
        headers == withContextToken(getBasicHeaders(additionalHeaders), contextToken)
    IN  /\ Returns(Call("cancelCart", salesChannelId, contextToken, additionalParams,
                        additionalHeaders),
                   Request("DELETE", route, NoData, additionalParams, headers))
        /\ UNCHANGED <<item, heap, basicHeaders, featureActive, nextId>>

removeLineItems(salesChannelId, contextToken, lineItemKeys, additionalParams, additionalHeaders) ==
    LET route == lineItemRoute(salesChannelId)
        headers == withContextToken(getBasicHeaders(additionalHeaders), contextToken)
    IN  /\ Returns(Call("removeLineItems", salesChannelId, contextToken,
                        additionalParams, additionalHeaders),
                   Request("DELETE", route, [ids |-> lineItemKeys],
                           additionalParams, headers))
        /\ UNCHANGED <<item, heap, basicHeaders, featureActive, nextId>>

addPromotionCode(salesChannelId, contextToken, code, additionalParams, additionalHeaders) ==
    LET route == lineItemRoute(salesChannelId)
        headers == withContextToken(getBasicHeaders(additionalHeaders), contextToken)
        payload == [items |-> <<[type |-> "promotion", referencedId |-> code]>>]
    IN  /\ Returns(Call("addPromotionCode", salesChannelId, contextToken,
                        additionalParams, additionalHeaders),
                   Request("POST", route, payload, additionalParams, headers))
        /\ UNCHANGED <<item, heap, basicHeaders, featureActive, nextId>>

modifyShippingCosts(salesChannelId, contextToken, shippingCosts, additionalHeaders, additionalParams) ==
    LET route == <<"_proxy/modify-shipping-costs">>
        headers == withContextToken(getBasicHeaders(additionalHeaders), contextToken)
    IN  /\ Returns(Call("modifyShippingCosts", salesChannelId, contextToken,
                        additionalParams, additionalHeaders),
                   Request("PATCH", route,
                           [salesChannelId |-> salesChannelId,
                            shippingCosts |-> shippingCosts],
                           additionalParams, headers))
        /\ UNCHANGED <<item, heap, basicHeaders, featureActive, nextId>>

\* additionalParams of the promotion toggles: salesChannelId 0 is an object
\* without the key, which reads as undefined
PromotionParams == [salesChannelId : 0..MaxSalesChannel]

\* mutant: the body names the sales channel whatever the flag says
automaticPromotionsDataAlways(active, additionalParams) ==
    [salesChannelId |-> additionalParams.salesChannelId]

\* const data = {}; if (...isActive(...)) data.salesChannelId = ...
automaticPromotionsData(active, additionalParams) ==
    IF active THEN [salesChannelId |-> additionalParams.salesChannelId]
    ELSE EmptyObject

disableAutomaticPromotions(contextToken, additionalParams, additionalHeaders) ==
    LET route == <<"_proxy/disable-automatic-promotions">>
        headers == withContextToken(getBasicHeaders(additionalHeaders), contextToken)
        data == automaticPromotionsData(isActive, additionalParams)
    IN  /\ Returns(Call("disableAutomaticPromotions", 0, contextToken,
                        additionalParams, additionalHeaders),
                   Request("PATCH", route, data, additionalParams, headers))
        /\ UNCHANGED <<item, heap, basicHeaders, featureActive, nextId>>

enableAutomaticPromotions(contextToken, additionalParams, additionalHeaders) ==
    LET route == <<"_proxy/enable-automatic-promotions">>
        headers == withContextToken(getBasicHeaders(additionalHeaders), contextToken)
        data == automaticPromotionsData(isActive, additionalParams)
    IN  /\ Returns(Call("enableAutomaticPromotions", 0, contextToken,
                        additionalParams, additionalHeaders),
                   Request("PATCH", route, data, additionalParams, headers))
        /\ UNCHANGED <<item, heap, basicHeaders, featureActive, nextId>>

(* ---------------------------- saveLineItem ---------------------------- *)
\* mutant: every new item counts as a new product item
isNewProductItemAnyType(it) == it.isNew

\* mutant: no item counts as a new product item
isNewProductItemNever(it) == FALSE

\* item._isNew && item.type === this.getLineItemTypes().PRODUCT
isNewProductItem(it) == it.isNew /\ it.type = getLineItemTypes.PRODUCT

\* whether utils.createId() is evaluated: || stops at the first truthy operand
callsCreateId(it) == it.identifier = NoId /\ it.id = NoId

\* mutant: item.id is preferred to item.identifier
lineItemIdPreferId(it) ==
    IF it.id # NoId THEN it.id
    ELSE IF it.identifier # NoId THEN it.identifier
    ELSE createId

\* item.identifier || item.id || utils.createId()
lineItemId(it) ==
    IF it.identifier # NoId THEN it.identifier
    ELSE IF it.id # NoId THEN it.id
    ELSE createId

\* mutant: the price fields are read before the new-product test
readsMissingFieldAlways(it, newProductItem) ==
    ~it.price.defined \/ it.priceDefinition = NoRef

\* line 101 throws a TypeError: the && stops at !isNewProductItem, else
\* item.price.unitPrice or item.priceDefinition.price reads a field of
\* an absent object
readsMissingField(it, newProductItem) ==
    /\ ~newProductItem
    /\ ~it.price.defined \/ it.priceDefinition = NoRef

\* mutant: dummyPrice is the item's own price definition, not a copy
buildDummyPriceAliased(h, it) ==
    LET h1 == [h EXCEPT ![it.priceDefinition].taxRules = h[it.priceDefinition].taxRules]
        h2 == [h1 EXCEPT ![it.priceDefinition].quantity = it.quantity]
        h3 == [h2 EXCEPT ![it.priceDefinition].type = mapLineItemTypeToPriceType(it.type)]
    IN  [heap |-> h3, ref |-> it.priceDefinition]

\* mutant: the copy keeps the quantity and the type it was stored with
buildDummyPriceNoOverride(h, it) ==
    LET copy == deepCopyObject(h, it.priceDefinition)
        h1 == [copy.heap EXCEPT ![copy.ref].taxRules = copy.heap[it.priceDefinition].taxRules]
    IN  [heap |-> h1, ref |-> copy.ref]

\* lines 102-105: the copy, then the three assignments to its fields
buildDummyPrice(h, it) ==
    LET copy == deepCopyObject(h, it.priceDefinition)
        h1 == [copy.heap EXCEPT ![copy.ref].taxRules = copy.heap[it.priceDefinition].taxRules]
        h2 == [h1 EXCEPT ![copy.ref].quantity = it.quantity]
        h3 == [h2 EXCEPT ![copy.ref].type = mapLineItemTypeToPriceType(it.type)]
    IN  [heap |-> h3, ref |-> copy.ref]

\* the price definition as the HTTP client receives it: null, or the object
\* the reference leads to, its taxRules included
sentPriceDefinition(h, ref) ==
    IF ref = NoRef THEN null
    ELSE [price |-> h[ref].price, taxRules |-> h[h[ref].taxRules],
          quantity |-> h[ref].quantity, type |-> h[ref].type]

\* the heap after the call, and the payload; the call must not throw
getPayloadForItem(h, it, salesChannelId, newProductItem, id) ==
    LET dummyPrice ==
            IF ~newProductItem /\ it.price.unitPrice # h[it.priceDefinition].price
            THEN buildDummyPrice(h, it)
            ELSE [heap |-> h, ref |-> NoRef]
    IN  [heap |-> dummyPrice.heap,
         payload |->
            [items |-> <<[id |-> id,
                          referencedId |-> id,
                          label |-> it.label,
                          quantity |-> it.quantity,
                          type |-> it.type,
                          description |-> it.description,
                          priceDefinition |->
                              sentPriceDefinition(dummyPrice.heap, dummyPrice.ref),
                          stackable |-> TRUE,
                          removable |-> TRUE,
                          salesChannelId |-> salesChannelId]>>]]

\* mutant: the method follows the new-product test
saveMethodByProduct(it) == IF isNewProductItem(it) THEN "POST" ELSE "PATCH"

\* if (item._isNew) post(...) else patch(...)
saveMethod(it) == IF it.isNew THEN "POST" ELSE "PATCH"

\* the caller's objects, as the call leaves them
callersObjects(h) == [a \in DOMAIN heap |-> h[a]]

saveLineItem(salesChannelId, contextToken, additionalParams, additionalHeaders) ==
    LET newProductItem == isNewProductItem(item)
        id == lineItemId(item)
        route == getRouteForItem(id, salesChannelId)
        headers == withContextToken(getBasicHeaders(additionalHeaders), contextToken)
        c == Call("saveLineItem", salesChannelId, contextToken, additionalParams,
                  additionalHeaders)
    IN  /\ callsCreateId(item) => nextId < MaxIds
        /\ nextId' = IF callsCreateId(item) THEN nextId + 1 ELSE nextId
        /\ IF readsMissingField(item, newProductItem)
           THEN /\ call' = c
                /\ issued' = <<>>
                /\ result' = "threw"
                /\ heap' = heap
           ELSE LET built == getPayloadForItem(heap, item, salesChannelId,
                                               newProductItem, id)
                IN  /\ Returns(c, Request(saveMethod(item), route, built.payload,
                                          additionalParams, headers))
                    /\ heap' = callersObjects(built.heap)
        /\ UNCHANGED <<item, basicHeaders, featureActive>>

(* --------------------------- specification ---------------------------- *)
Next ==
    \/ \E sc \in SalesChannelIds, p \in Params, h \in AdditionalHeaders :
          createCart(sc, p, h)
    \/ \E sc \in SalesChannelIds, t \in Tokens, p \in Params, h \in AdditionalHeaders :
          getCart(sc, t, p, h)
    \/ \E sc \in SalesChannelIds, t \in Tokens, p \in Params, h \in AdditionalHeaders :
          cancelCart(sc, t, p, h)
    \/ \E sc \in SalesChannelIds, t \in Tokens, p \in Params, h \in AdditionalHeaders :
          removeLineItems(sc, t, LineItemKeys, p, h)
    \/ \E sc \in SalesChannelIds, t \in Tokens, p \in Params, h \in AdditionalHeaders :
          saveLineItem(sc, t, p, h)
    \/ \E sc \in SalesChannelIds, t \in Tokens, p \in Params, h \in AdditionalHeaders :
          addPromotionCode(sc, t, PromotionCode, p, h)
    \/ \E sc \in SalesChannelIds, t \in Tokens, p \in Params, h \in AdditionalHeaders :
          modifyShippingCosts(sc, t, ShippingCosts, h, p)
    \/ \E t \in Tokens, p \in PromotionParams, h \in AdditionalHeaders :
          disableAutomaticPromotions(t, p, h)
    \/ \E t \in Tokens, p \in PromotionParams, h \in AdditionalHeaders :
          enableAutomaticPromotions(t, p, h)
    \/ ToggleFeature

Spec == Init /\ [][Next]_vars

(* ------------------------------ properties ---------------------------- *)
\* the most recent operation was saveLineItem and it returned its promise
Saved == call.op = "saveLineItem" /\ result = "pending"

\* the single line item of the payload the most recent call sent
SentItem == issued[1].data.items[1]

\* item.price.unitPrice !== item.priceDefinition.price, both being there
PriceDiffers ==
    /\ item.price.defined
    /\ item.priceDefinition # NoRef
    /\ item.price.unitPrice # heap[item.priceDefinition].price

\* C1 as stated: the payload's priceDefinition is non-null if and only if the
\* item is not newly created and its unit price differs from the price of
\* its price definition.
C1_AsStated ==
    Saved => (SentItem.priceDefinition # null <=> (~item.isNew /\ PriceDiffers))

\* C1 amended: the payload's priceDefinition is non-null if and only if the
\* item is not a new product item (not both newly created and of type
\* product) and its unit price differs from the price of its price definition.
C1_PriceDefinitionIffNotNewProductAndDiffers ==
    Saved =>
        (SentItem.priceDefinition # null
            <=> (~(item.isNew /\ item.type = "product") /\ PriceDiffers))

\* a new credit item with an edited price is sent with a price definition
C1_Witness ==
    /\ Saved
    /\ item.isNew
    /\ item.type = "credit"
    /\ PriceDiffers
    /\ SentItem.priceDefinition # null

\* C2: a saveLineItem call that returns has made exactly one HTTP client
\* call, a POST when item._isNew and a PATCH otherwise, and both go to the
\* line-item route of the call's sales channel, whatever the item.
C2_CreateOrUpdateOnSameRoute ==
    Saved =>
        /\ Len(issued) = 1
        /\ issued[1].method = (IF item.isNew THEN "POST" ELSE "PATCH")
        /\ issued[1].route = <<"_proxy/store-api/", call.salesChannelId, "/v",
                               getApiVersion, "/checkout/cart/line-item">>

\* a new item that is no product is created with a POST
C2_Witness ==
    /\ Saved
    /\ item.isNew
    /\ item.type = "custom"
    /\ issued[1].method = "POST"

\* C3: for an item that is not new and whose unit price differs from its
\* price definition's price, the payload's priceDefinition is non-null, its
\* quantity is the item's quantity and its type is the price type of the
\* item's type (quantity for product and custom, absolute for credit,
\* undefined for promotion), whatever the stored definition held.
C3_OverrideTakesQuantityAndMappedType ==
    (Saved /\ ~item.isNew /\ PriceDiffers) =>
        /\ SentItem.priceDefinition # null
        /\ SentItem.priceDefinition.quantity = item.quantity
        /\ SentItem.priceDefinition.type =
              (CASE item.type = "product" -> "quantity"
                 [] item.type = "custom" -> "quantity"
                 [] item.type = "credit" -> "absolute"
                 [] OTHER -> "undefined")

\* a stored definition of another quantity and type is overridden
C3_Witness ==
    /\ Saved
    /\ ~item.isNew
    /\ PriceDiffers
    /\ item.type = "credit"
    /\ heap[item.priceDefinition].type = "quantity"
    /\ heap[item.priceDefinition].quantity # item.quantity
    /\ SentItem.priceDefinition.type = "absolute"
    /\ SentItem.priceDefinition.quantity = item.quantity

\* C4: for a new item of type product the payload's priceDefinition is null,
\* whether or not the unit price equals the price definition's price.
C4_NewProductHasNoPriceDefinition ==
    (Saved /\ item.isNew /\ item.type = "product") =>
        SentItem.priceDefinition = null

\* a new product item with an edited price is sent without price definition
C4_Witness ==
    /\ Saved
    /\ item.isNew
    /\ item.type = "product"
    /\ PriceDiffers
    /\ SentItem.priceDefinition = null

\* C5: the payload's id and referencedId are item.identifier if present,
\* else item.id if present, else the value the ID generator returned last;
\* a generated value is sent only when the item has neither.
C5_IdentifierPrecedence ==
    Saved =>
        /\ SentItem.referencedId = SentItem.id
        /\ SentItem.id =
              (IF item.identifier.from # "none" THEN item.identifier
               ELSE IF item.id.from # "none" THEN item.id
               ELSE [from |-> "createId", n |-> nextId - 1])
        /\ SentItem.id.from = "createId"
              <=> (item.identifier.from = "none" /\ item.id.from = "none")

\* an item with both identifiers is sent under item.identifier
C5_Witness ==
    /\ Saved
    /\ item.identifier.from = "identifier"
    /\ item.id.from = "id"
    /\ SentItem.id = item.identifier
    /\ SentItem.referencedId = item.identifier

\* the sw-context-token header of a createCart request: the caller's, else
\* the base headers', else none
CreateCartTokenUntouched ==
    LET h == issued[1].headers
    IN  IF "swContextToken" \in DOMAIN call.additionalHeaders
        THEN h.swContextToken = call.additionalHeaders.swContextToken
        ELSE IF "swContextToken" \in DOMAIN basicHeaders
        THEN h.swContextToken = basicHeaders.swContextToken
        ELSE "swContextToken" \notin DOMAIN h

\* C6: the request of every operation that takes a context token carries
\* sw-context-token equal to that argument, also when the caller's or the
\* base headers hold another value; createCart alone leaves the header as
\* the header builder returned it.
C6_ContextTokenHeader ==
    result = "pending" =>
        IF call.op = "createCart"
        THEN CreateCartTokenUntouched
        ELSE /\ call.op \in {"getCart", "cancelCart", "removeLineItems",
                             "saveLineItem", "addPromotionCode",
                             "modifyShippingCosts", "disableAutomaticPromotions",
                             "enableAutomaticPromotions"}
             /\ "swContextToken" \in DOMAIN issued[1].headers
             /\ issued[1].headers.swContextToken = call.contextToken

\* the caller's headers and the base headers both hold another token
C6_Witness ==
    /\ result = "pending"
    /\ call.op = "saveLineItem"
    /\ "swContextToken" \in DOMAIN call.additionalHeaders
    /\ "swContextToken" \in DOMAIN basicHeaders
    /\ call.additionalHeaders.swContextToken # call.contextToken
    /\ basicHeaders.swContextToken # call.contextToken
    /\ issued[1].headers.swContextToken = call.contextToken

\* C7: a call of disableAutomaticPromotions or enableAutomaticPromotions
\* issues a PATCH whose body holds salesChannelId only if the feature flag
\* reports active at the time of that call, and whose body is empty if it
\* does not; the flag's value at each call decides.
C7_FlagDecidesBodyAtEachCall ==
    [][(/\ featureActive' = featureActive
        /\ call'.op \in {"disableAutomaticPromotions", "enableAutomaticPromotions"})
       => /\ Len(issued') = 1
          /\ issued'[1].method = "PATCH"
          /\ "salesChannelId" \in DOMAIN issued'[1].data => featureActive
          /\ ~featureActive => issued'[1].data = EmptyObject
          /\ featureActive =>
                issued'[1].data.salesChannelId = call'.additionalParams.salesChannelId
      ]_vars

\* the body is empty although the caller's parameters name a sales channel
C7_Witness ==
    /\ call.op = "disableAutomaticPromotions"
    /\ ~featureActive
    /\ call.additionalParams.salesChannelId = 1
    /\ issued[1].data = EmptyObject

\* C8: every operation leaves the caller's item, the objects it refers to
\* and the base headers as they were, and one that returns has made exactly
\* one HTTP client call; so a call finds what it would find made alone.
C8_OneRequestAndNothingElse ==
    [][/\ item' = item
       /\ heap' = heap
       /\ basicHeaders' = basicHeaders
       /\ result' = "pending" => Len(issued') = 1
       /\ call' # call => featureActive' = featureActive
      ]_vars

\* a price override was built and the stored definition kept its quantity
C8_Witness ==
    /\ Saved
    /\ SentItem.priceDefinition # null
    /\ SentItem.priceDefinition.quantity # heap[item.priceDefinition].quantity
    /\ SentItem.priceDefinition.type # heap[item.priceDefinition].type

\* C9 as stated: no request of saveLineItem or addPromotionCode carries a
\* non-null priceDefinition for an item of type promotion.
C9_AsStated ==
    (result = "pending" /\ call.op \in {"saveLineItem", "addPromotionCode"}) =>
        (SentItem.type = "promotion" =>
            \/ "priceDefinition" \notin DOMAIN SentItem
            \/ SentItem.priceDefinition = null)

\* C9 amended: addPromotionCode never sends a priceDefinition; saveLineItem
\* sends a non-null priceDefinition for a promotion item exactly when its
\* unit price differs from its price definition's price, and a sent
\* priceDefinition has an undefined type exactly when the item's type is
\* promotion.
C9_PromotionPriceDefinition ==
    /\ (result = "pending" /\ call.op = "addPromotionCode") =>
          /\ SentItem.type = "promotion"
          /\ "priceDefinition" \notin DOMAIN SentItem
    /\ (Saved /\ item.type = "promotion") =>
          (SentItem.priceDefinition # null <=> PriceDiffers)
    /\ (Saved /\ SentItem.priceDefinition # null) =>
          (SentItem.priceDefinition.type = "undefined" <=> item.type = "promotion")

\* a promotion item with an edited price is sent with a price definition
\* of undefined type
C9_Witness ==
    /\ Saved
    /\ item.type = "promotion"
    /\ SentItem.priceDefinition # null
    /\ SentItem.priceDefinition.type = "undefined"

\* C10: saveLineItem of an item that is no new product item and lacks price
\* or priceDefinition throws and makes no HTTP client call; saveLineItem of
\* a new product item issues its POST even if both are absent.
C10_MissingFieldsThrowUnlessNewProduct ==
    call.op = "saveLineItem" =>
        /\ (/\ ~(item.isNew /\ item.type = "product")
            /\ ~item.price.defined \/ item.priceDefinition = NoRef)
           => (result = "threw" /\ issued = <<>>)
        /\ (item.isNew /\ item.type = "product")
           => (/\ result = "pending"
               /\ Len(issued) = 1
               /\ issued[1].method = "POST")

\* a new product item without price and priceDefinition was posted
C10_Witness ==
    /\ Saved
    /\ item.isNew
    /\ item.type = "product"
    /\ ~item.price.defined
    /\ item.priceDefinition = NoRef
    /\ issued[1].method = "POST"

====
